---- MODULE Spec2Model ----
(***************************************************************************)
(* Auditora: context store (Paragon), scope guards (bifrost), role proxies *)
(* and the eager / deferred monitors, as state machines.                   *)
(***************************************************************************)
EXTENDS Integers, Sequences, FiniteSets, TLC

\* ------------------------------------------------------------------ bounds
NumUnits == 2
MaxTokens == 2

Units == 1..NumUnits
AdatIds == {1, 2}
Roles == {"session", "monitor", "report"}

\* The value of an unset ContextVar(default=None).
None == [none |-> TRUE]

VARIABLES
  context,     \* Paragon._context: its value in each unit's own Context
  tokens,      \* every contextvars.Token handed out, by allocation number
  scopes,      \* per unit, the open bifrost scopes (innermost last)
  last,        \* outcome of the last operation: what the caller observed
  stack,       \* history: per unit, the activations not yet undone
  lifo,        \* history: the unit has paired set/reset innermost-first
  resets       \* history: reset_context executions per token

ctxVars == <<context, tokens, scopes, stack, lifo, resets>>

VARIABLES
  spawned      \* history: per unit, the unit that spawned it (0: none did) and
               \* the entry that was current for the spawning unit then

\* ------------------------------------------------------- core/paragon.py
\* The dict built by set_context; id is the identity of that dict object.
ContextDict(i, id) ==
  [session |-> <<"session", i>>, monitor |-> <<"monitor", i>>,
   report |-> <<"report", i>>, id |-> id]

\* ContextVar.set in the calling unit's Context only.
SetVarShared(c, u, v) == [w \in DOMAIN c |-> v]
SetVarInherited(c, u, v) ==
  [w \in DOMAIN c |-> IF w = u \/ spawned[u].from = w THEN v ELSE c[w]]
SetVar(c, u, v) == [c EXCEPT ![u] = v]

\* The Token returned by ContextVar.set: the Context and the old value.
NewTokenNoOld(c, u, kind) == [ctx |-> u, old |-> None, used |-> FALSE, kind |-> kind]
NewToken(c, u, kind) == [ctx |-> u, old |-> c[u], used |-> FALSE, kind |-> kind]

\* ContextVar.reset(token): the checks contextvars makes, in its order.
ResetError(u, t) ==
  IF tokens[t].used THEN "RuntimeError"
  ELSE IF tokens[t].ctx # u THEN "ValueError"
  ELSE "none"

\* Paragon.get_context: the current dict, or the not-active error.
GetContextDefault(c, u) ==
  IF c[u] = None THEN [err |-> "none", ret |-> ContextDict(1, 0)]
  ELSE [err |-> "none", ret |-> c[u]]
GetContext(c, u) ==
  IF c[u] = None THEN [err |-> "NotActive", ret |-> None]
  ELSE [err |-> "none", ret |-> c[u]]

\* set/reset as state changes, shared by the raw calls and the guards.
Activate(u, i, kind) ==
  LET t == Len(tokens) + 1 IN
  /\ t <= MaxTokens
  /\ tokens' = Append(tokens, NewToken(context, u, kind))
  /\ context' = SetVar(context, u, ContextDict(i, t))
  /\ stack' = [stack EXCEPT ![u] = Append(@, [tok |-> t, prev |-> context[u]])]
  /\ resets' = resets @@ (t :> 0)

Restore(u, t) ==
  /\ tokens' = [tokens EXCEPT ![t].used = TRUE]
  /\ context' = SetVar(context, u, tokens[t].old)
  /\ resets' = [resets EXCEPT ![t] = @ + 1]
  /\ IF stack[u] # << >> /\ stack[u][Len(stack[u])].tok = t
     THEN /\ stack' = [stack EXCEPT ![u] = SubSeq(@, 1, Len(@) - 1)]
          /\ lifo' = lifo
     ELSE /\ stack' = stack
          /\ lifo' = [lifo EXCEPT ![u] = FALSE]

set_context(u, i) ==
  /\ Activate(u, i, "raw")
  /\ last' = [op |-> "set_context", unit |-> u, err |-> "none", tok |-> Len(tokens) + 1]
  /\ UNCHANGED <<scopes, lifo>>

get_context(u) ==
  /\ last' = [op |-> "get_context", unit |-> u] @@ GetContext(context, u)
  /\ UNCHANGED ctxVars

reset_context(u, t) ==
  /\ tokens[t].kind = "raw"
  /\ IF ResetError(u, t) = "none"
     THEN /\ Restore(u, t)
          /\ last' = [op |-> "reset_context", unit |-> u, err |-> "none", tok |-> t,
                      paired |-> lifo[u] /\ stack[u] # << >>
                                 /\ stack[u][Len(stack[u])].tok = t,
                      prev |-> IF stack[u] # << >> THEN stack[u][Len(stack[u])].prev
                               ELSE None]
          /\ UNCHANGED scopes
     ELSE /\ last' = [op |-> "reset_context", unit |-> u, err |-> ResetError(u, t),
                      tok |-> t, paired |-> FALSE, prev |-> None]
          /\ UNCHANGED ctxVars

\* copy_current_context: contextvars.copy_context(), a new Context in which
\* the variable has the value it has for the caller; the task runs in it.
CopyContext(c, u, child) == [c EXCEPT ![child] = c[u]]

\* A unit that has not run yet.
NotStarted(u) ==
  /\ spawned[u].from = 0
  /\ context[u] = None
  /\ stack[u] = << >>
  /\ \A t \in 1..Len(tokens) : tokens[t].ctx # u

\* Unit u spawns the task child, which starts in a copy of u's context.
copy_current_context(u, child) ==
  /\ child # u
  /\ NotStarted(child)
  /\ context' = CopyContext(context, u, child)
  /\ spawned' = [spawned EXCEPT ![child] = [from |-> u, entry |-> context[u]]]
  /\ last' = [op |-> "spawn", unit |-> u, err |-> "none", child |-> child,
              entry |-> context[u]]
  /\ UNCHANGED <<tokens, scopes, stack, lifo, resets>>

\* ------------------------------------------------------- core/bifrost.py
ExitHows(kind) ==
  IF kind = "async" THEN {"return", "raise", "early", "cancel"}
  ELSE {"return", "raise", "early"}

\* try: yield / finally: reset_context(token) -- the cleanup runs on every exit.
CleanupOnReturnOnly(how) == how = "return"
CleanupNotOnCancel(how) == how # "cancel"
CleanupRuns(how) == TRUE

\* What the caller of the with-block sees once the guard has exited.
Propagated(how) ==
  CASE how = "raise" -> "BodyError"
    [] how = "cancel" -> "CancelledError"
    [] OTHER -> "none"

bifrost_enter(u, kind, i) ==
  /\ Activate(u, i, kind)
  /\ scopes' = [scopes EXCEPT ![u] = Append(@, Len(tokens) + 1)]
  /\ last' = [op |-> "bifrost_enter", unit |-> u, err |-> "none", tok |-> Len(tokens) + 1]
  /\ UNCHANGED lifo

bifrost_exit(u, how) ==
  /\ scopes[u] # << >>
  /\ LET t == scopes[u][Len(scopes[u])] IN
     /\ how \in ExitHows(tokens[t].kind)
     /\ scopes' = [scopes EXCEPT ![u] = SubSeq(@, 1, Len(@) - 1)]
     /\ IF CleanupRuns(how) /\ ResetError(u, t) = "none"
        THEN Restore(u, t)
        ELSE UNCHANGED <<context, tokens, stack, lifo, resets>>
     /\ last' = [op |-> "bifrost_exit", unit |-> u,
                 err |-> IF CleanupRuns(how) /\ ResetError(u, t) # "none"
                         THEN ResetError(u, t) ELSE Propagated(how),
                 tok |-> t, how |-> how,
                 paired |-> lifo[u] /\ stack[u] # << >>
                            /\ stack[u][Len(stack[u])].tok = t,
                 prev |-> IF stack[u] # << >> THEN stack[u][Len(stack[u])].prev
                          ELSE None]

\* ------------------------------------------------------- core/proxies.py
VARIABLES
  proxyAttrs   \* the instance __dict__ of each module-level proxy, by role

\* Attribute names and values the callers use; a leading underscore is decided
\* by name.startswith('_').
AttrNames == {"x", "_key"}
AttrVals == {"monitor"}
StartsWithUnderscore(name) == name \in {"_key", "_get_current_context"}

\* Names found by normal lookup on the proxy before __getattr__ is tried:
\* the instance __dict__ and the attributes of the class.
ClassAttrs == {"_get_current_context"}
FoundOnProxy(pa, role, name) == name \in DOMAIN pa[role] \cup ClassAttrs

\* Operations that resolve the collaborator and apply themselves to it.
ForwardOps == {"call", "getitem", "eq", "bool", "iter", "len"}
ProxyOps == {"getattr", "setattr"} \cup ForwardOps

\* _ContextProxy._get_current_context: get_context(), then context[self._key].
ResolveFirstAdat(c, u, key) ==
  IF GetContext(c, u).err # "none" THEN [err |-> GetContext(c, u).err, obj |-> None]
  ELSE IF key \notin Roles THEN [err |-> "KeyError", obj |-> None]
  ELSE [err |-> "none", obj |-> <<key, 1>>]
Resolve(c, u, key) ==
  IF GetContext(c, u).err # "none" THEN [err |-> GetContext(c, u).err, obj |-> None]
  ELSE IF key \notin Roles THEN [err |-> "KeyError", obj |-> None]
  ELSE [err |-> "none", obj |-> GetContext(c, u).ret[key]]

\* __setattr__: names with a leading underscore are stored on the proxy itself.
OnProxy(role) == <<"proxy", role>>

proxy_op(u, role, pop, name, val) ==
  LET r == Resolve(context, u, proxyAttrs[role]["_key"])
      out(err, target) ==
        [op |-> "proxy", unit |-> u, err |-> err, role |-> role, pop |-> pop,
         name |-> name, target |-> target]
  IN
  /\ CASE pop = "getattr" /\ FoundOnProxy(proxyAttrs, role, name) ->
            /\ last' = out("none", OnProxy(role))
            /\ UNCHANGED proxyAttrs
       [] pop = "setattr" /\ StartsWithUnderscore(name) ->
            /\ proxyAttrs' = [proxyAttrs EXCEPT ![role] = (name :> val) @@ @]
            /\ last' = out("none", OnProxy(role))
       [] OTHER ->
            /\ last' = out(r.err, r.obj)
            /\ UNCHANGED proxyAttrs
  /\ UNCHANGED ctxVars

\* ------------------------------------------------------ adats/monitor.py
\* DefaultMonitor (eager buffer)
MaxBufferSize == 2
MaxClock == 2

VARIABLES
  now,         \* time.perf_counter(), non-decreasing
  dm           \* the DefaultMonitor instance: its slots

\* Optional arguments: absent, or one value.
NoDuration == << >>
Some(x) == <<x>>

Events == {"a", "b"}
TimerNames == {"job"}
Durations == {NoDuration, Some(1)}
NoMetadata == << >>
Metadatas == {NoMetadata, "k" :> 1}

\* aspects/events/record.py: the fields of the NamedTuple.
EventRecordFields == {"etype", "timestamp", "metadata"}
EventRecord(etype, timestamp, metadata) ==
  [etype |-> etype, timestamp |-> timestamp, metadata |-> metadata]

\* dict.update: the keys of the argument win.
DictUpdate(d, other) == other @@ d
update_metadata(rec, metadata) ==
  [rec EXCEPT !.metadata = DictUpdate(rec.metadata, metadata)]

\* deque(maxlen=n).append: the oldest element leaves a full deque.
DequeAppend(q, x, maxlen) ==
  IF Len(q) >= maxlen THEN Append(Tail(q), x) ELSE Append(q, x)

DefaultMonitorInit(t) ==
  [start_time |-> t, event_count |-> 0,
   events_buffer |-> [k \in 1..MaxBufferSize |-> 0],
   events_metadata |-> << >>, metrics |-> << >>]

\* DefaultMonitor.track on monitor state m at clock t: the state it leaves and
\* the error it raises.
DefaultTrack(m, t, event, duration, metadata) ==
  IF m.event_count >= MaxBufferSize
  THEN [m |-> m, err |-> "none"]
  ELSE
    LET elapsed == t - m.start_time
        m1 == [m EXCEPT !.events_buffer[m.event_count + 1] = elapsed]
        rec == EventRecord(event, elapsed, metadata)
    IN IF duration # NoDuration /\ "details" \notin EventRecordFields
       THEN [m |-> m1, err |-> "AttributeError"]
       ELSE [m |-> [m1 EXCEPT
                      !.events_metadata =
                        DequeAppend(@, update_metadata(rec, metadata), MaxBufferSize),
                      !.event_count = @ + 1],
             err |-> "none"]

\* Float division, kept exact: numerator and denominator.
Ratio(a, b) == [num |-> a, den |-> b]

\* _count_events_by_type: counts per etype, keys in first-seen order.
RECURSIVE CountByType(_, _)
CountByType(events, counts) ==
  IF events = << >> THEN counts
  ELSE LET ty == Head(events).etype
           at == {k \in 1..Len(counts) : counts[k].key = ty}
       IN CountByType(Tail(events),
            IF at = {} THEN Append(counts, [key |-> ty, n |-> 1])
            ELSE [k \in 1..Len(counts) |->
                    IF k \in at THEN [counts[k] EXCEPT !.n = @ + 1] ELSE counts[k]])

DefaultSummary(m) ==
  IF m.events_metadata = << >>
  THEN [err |-> "IndexError", ret |-> None]
  ELSE [err |-> "none",
        ret |-> [total_events |-> Len(m.events_metadata),
                 total_metrics |-> Cardinality(DOMAIN m.metrics),
                 events_by_type |-> CountByType(m.events_metadata, << >>),
                 metrics |-> m.metrics,
                 buffer_usage |-> Ratio(m.event_count, MaxBufferSize)]]

Tick ==
  /\ now < MaxClock
  /\ now' = now + 1
  /\ UNCHANGED <<dm, last>>

DefaultMonitor_track(event, duration, metadata) ==
  LET r == DefaultTrack(dm, now, event, duration, metadata) IN
  /\ dm' = r.m
  /\ last' = [op |-> "track", unit |-> 0, err |-> r.err, pre |-> dm, at |-> now,
              event |-> event, duration |-> duration, metadata |-> metadata]
  /\ UNCHANGED now

DefaultMonitor_start_timer(name) ==
  LET r == DefaultTrack(dm, now, name \o "_started", NoDuration, NoMetadata) IN
  /\ dm' = r.m
  /\ last' = [op |-> "start_timer", unit |-> 0, err |-> r.err, pre |-> dm, at |-> now,
              name |-> name, ret |-> IF r.err = "none" THEN Some(now) ELSE << >>]
  /\ UNCHANGED now

DefaultMonitor_stop_timer(name, start_time, metadata) ==
  LET duration == now - start_time
      r == DefaultTrack(dm, now, name \o "_completed", Some(duration), metadata)
  IN
  /\ dm' = r.m
  /\ last' = [op |-> "stop_timer", unit |-> 0, err |-> r.err, pre |-> dm, at |-> now,
              name |-> name, start_time |-> start_time, metadata |-> metadata,
              ret |-> IF r.err = "none" THEN Some(duration) ELSE << >>]
  /\ UNCHANGED now

DefaultMonitor_get_events ==
  /\ last' = [op |-> "get_events", unit |-> 0, err |-> "none", ret |-> dm.events_metadata]
  /\ UNCHANGED <<dm, now>>

DefaultMonitor_get_summary ==
  /\ last' = [op |-> "get_summary", unit |-> 0] @@ DefaultSummary(dm)
  /\ UNCHANGED <<dm, now>>

DefaultMonitor_clear_keeps_count ==
  /\ dm' = [dm EXCEPT !.events_metadata = << >>]
  /\ last' = [op |-> "clear_buffer", unit |-> 0, err |-> "none"]
  /\ UNCHANGED now
DefaultMonitor_clear_buffer ==
  /\ dm' = [dm EXCEPT !.events_metadata = << >>, !.event_count = 0]
  /\ last' = [op |-> "clear_buffer", unit |-> 0, err |-> "none"]
  /\ UNCHANGED now

\* DefaultMonitor(): a new monitor, started at the current clock value.
DefaultMonitor_init ==
  /\ dm' = DefaultMonitorInit(now)
  /\ last' = [op |-> "init", unit |-> 0, err |-> "none"]
  /\ UNCHANGED now

\* ------------------------------------------------------ adats/monitor.py
\* The metrics table and the snapshots handed out
MaxMetric == 2
MaxSnapshots == 2

VARIABLES
  snapshots    \* the dict objects get_metrics / get_summary returned, as the
               \* callers hold them

MetricNames == {"hits", "cost"}
MetricDeltas == {1}

\* dict.get(name, 0.0) on the table.
MetricGet(d, name) == IF name \in DOMAIN d THEN d[name] ELSE 0
\* d[name] = value
DictSet(d, name, value) == (name :> value) @@ d

\* dict.copy(): a new dict object with the same items. An object is either
\* the table itself (alias) or a dict of its own.
DictAlias(d) == [alias |-> TRUE, obj |-> d]
DictCopy(d) == [alias |-> FALSE, obj |-> d]
\* The items a held object shows when read now.
Items(o) == IF o.alias THEN dm.metrics ELSE o.obj

\* A returned snapshot as the caller holds it; taken is what it showed when
\* returned, touched whether the caller has written to it since.
Held(o) == [o |-> o, taken |-> o.obj, touched |-> FALSE]

DefaultMonitor_increment_overwrites(name, value) ==
  /\ MetricGet(dm.metrics, name) + value <= MaxMetric
  /\ dm' = [dm EXCEPT !.metrics = DictSet(@, name, value)]
  /\ last' = [op |-> "increment_metric", unit |-> 0, err |-> "none"]
  /\ UNCHANGED <<now, snapshots>>
DefaultMonitor_increment_metric(name, value) ==
  /\ MetricGet(dm.metrics, name) + value <= MaxMetric
  /\ dm' = [dm EXCEPT !.metrics = DictSet(@, name, MetricGet(@, name) + value)]
  /\ last' = [op |-> "increment_metric", unit |-> 0, err |-> "none"]
  /\ UNCHANGED <<now, snapshots>>

DefaultMonitor_get_metrics ==
  /\ Len(snapshots) < MaxSnapshots
  /\ snapshots' = Append(snapshots, Held(DictCopy(dm.metrics)))
  /\ last' = [op |-> "get_metrics", unit |-> 0, err |-> "none"]
  /\ UNCHANGED <<now, dm>>

\* get_summary()['metrics'] kept by the caller.
DefaultMonitor_get_summary_metrics ==
  /\ Len(snapshots) < MaxSnapshots
  /\ last' = [op |-> "get_summary", unit |-> 0] @@ DefaultSummary(dm)
  /\ snapshots' = IF DefaultSummary(dm).err = "none"
                  THEN Append(snapshots, Held(DictCopy(dm.metrics)))
                  ELSE snapshots
  /\ UNCHANGED <<now, dm>>

\* The caller writes snapshot[name] = value into the k-th object it holds.
snapshot_write(k, name, value) ==
  /\ k \in 1..Len(snapshots)
  /\ IF snapshots[k].o.alias
     THEN /\ dm' = [dm EXCEPT !.metrics = DictSet(@, name, value)]
          /\ snapshots' = [snapshots EXCEPT ![k].touched = TRUE]
     ELSE /\ dm' = dm
          /\ snapshots' = [snapshots EXCEPT ![k].touched = TRUE,
                                            ![k].o.obj = DictSet(@, name, value)]
  /\ last' = [op |-> "snapshot_write", unit |-> 0, err |-> "none", table |-> dm.metrics]
  /\ UNCHANGED now

\* increment_metric(name, value=1.0) as its callers call it
MaxCalls == 3

VARIABLES
  deltas       \* history: the increment_metric calls made, in order, each with
               \* the value argument as given (absent, or one number)

\* The value parameter: the argument, or the default 1.0.
NoValue == << >>
ValueArgs == {NoValue, Some(1), Some(0 - 1)}
ValueOrDefault(arg) == IF arg = NoValue THEN 1 ELSE arg[1]

\* A call increment_metric(name) or increment_metric(name, value).
increment_metric_call(name, arg) ==
  /\ Len(deltas) < MaxCalls
  /\ MetricGet(dm.metrics, name) + ValueOrDefault(arg) >= 0 - MaxMetric
  /\ DefaultMonitor_increment_metric(name, ValueOrDefault(arg))
  /\ deltas' = Append(deltas, [name |-> name, arg |-> arg, pre |-> dm])

\* ------------------------------------------------------ adats/monitor.py
\* OptimizedMonitor (deferred buffer): msgpack values and bytes
MaxGarbage == 2
WallOffset == 100

\* Python values as msgpack sees them, tagged by type.
PyNone == [ty |-> "nil", v |-> 0]
PyInt(n) == [ty |-> "int", v |-> n]
PyBool(b) == [ty |-> "bool", v |-> b]
Pair(k, val) == [k |-> k, val |-> val]
PyDict(pairs) == [ty |-> "map", v |-> pairs]

\* str.encode('utf-8') of the strings the monitor and its callers use.
Utf8(s) ==
  CASE s = "" -> << >>
    [] s = "a" -> <<97>>
    [] s = "b" -> <<98>>
    [] s = "d" -> <<100>>
    [] s = "e" -> <<101>>
    [] s = "k" -> <<107>>
    [] s = "m" -> <<109>>
    [] s = "t" -> <<116>>
    [] s = "ts" -> <<116, 115>>
    [] s = "job_started" -> <<106, 111, 98, 95, 115, 116, 97, 114, 116, 101, 100>>
    [] s = "job_completed" -> <<106, 111, 98, 95, 99, 111, 109, 112, 108, 101, 116, 101, 100>>
    [] s = "version" -> <<118, 101, 114, 115, 105, 111, 110>>
    [] s = "created_at" -> <<99, 114, 101, 97, 116, 101, 100, 95, 97, 116>>
    [] s = "format" -> <<102, 111, 114, 109, 97, 116>>
    [] s = "msgpack" -> <<109, 115, 103, 112, 97, 99, 107>>
    [] s = "event_count" -> <<101, 118, 101, 110, 116, 95, 99, 111, 117, 110, 116>>
PyStr(s) == [ty |-> "str", v |-> Utf8(s)]

\* The 8 bytes of a float64, big-endian; small non-negative numbers only, the
\* bit pattern stands for the number.
Float64Bits(x) == <<0, 0, 0, 0, 0, 0, 0, x>>
PyFloat(x) == [ty |-> "float", v |-> Float64Bits(x)]

\* msgpack.packb: fixint, nil, bool, float64, fixstr, fixmap.
RECURSIVE Pack(_), PackPairs(_)
Pack(x) ==
  CASE x.ty = "nil" -> <<192>>
    [] x.ty = "bool" -> IF x.v THEN <<195>> ELSE <<194>>
    [] x.ty = "int" -> IF x.v >= 0 THEN <<x.v>> ELSE <<256 + x.v>>
    [] x.ty = "float" -> <<203>> \o x.v
    [] x.ty = "str" -> <<160 + Len(x.v)>> \o x.v
    [] x.ty = "map" -> <<128 + Len(x.v)>> \o PackPairs(x.v)
PackPairs(ps) ==
  IF ps = << >> THEN << >>
  ELSE Pack(Head(ps).k) \o Pack(Head(ps).val) \o PackPairs(Tail(ps))

\* One object decoded from b at index i: st is "ok" (val, next index),
\* "eof" (OutOfData), "fmt" (FormatError: the byte 0xc1), "value"
\* (ValueError: a map key that is no str, a str that is not UTF-8).
Failed(st) == [st |-> st, val |-> PyNone, next |-> 0]
Decoded(val, next) == [st |-> "ok", val |-> val, next |-> next]
ValidUtf8(bytes) == \A k \in 1..Len(bytes) : bytes[k] < 128

RECURSIVE UnpackAt(_, _), UnpackPairs(_, _, _, _)
UnpackAt(b, i) ==
  IF i > Len(b) THEN Failed("eof")
  ELSE LET c == b[i] IN
    CASE c <= 127 -> Decoded(PyInt(c), i + 1)
      [] c \in 128..143 -> UnpackPairs(b, i + 1, c - 128, << >>)
      [] c \in 160..191 ->
           IF i + (c - 160) > Len(b) THEN Failed("eof")
           ELSE IF ~ValidUtf8(SubSeq(b, i + 1, i + (c - 160))) THEN Failed("value")
           ELSE Decoded([ty |-> "str", v |-> SubSeq(b, i + 1, i + (c - 160))],
                        i + (c - 160) + 1)
      [] c = 192 -> Decoded(PyNone, i + 1)
      [] c = 193 -> Failed("fmt")
      [] c \in {194, 195} -> Decoded(PyBool(c = 195), i + 1)
      [] c = 203 ->
           IF i + 8 > Len(b) THEN Failed("eof")
           ELSE Decoded([ty |-> "float", v |-> SubSeq(b, i + 1, i + 8)], i + 9)
      [] c >= 224 -> Decoded(PyInt(c - 256), i + 1)
      [] OTHER -> Failed("unmodelled")
UnpackPairs(b, i, n, acc) ==
  IF n = 0 THEN Decoded(PyDict(acc), i)
  ELSE LET k == UnpackAt(b, i) IN
    IF k.st # "ok" THEN Failed(k.st)
    ELSE IF k.val.ty # "str" THEN Failed("value")
    ELSE LET x == UnpackAt(b, k.next) IN
      IF x.st # "ok" THEN Failed(x.st)
      ELSE UnpackPairs(b, x.next, n - 1, Append(acc, Pair(k.val, x.val)))

\* msgpack.unpackb(data): exactly one object, nothing after it.
Unpackb(data) ==
  LET r == UnpackAt(data, 1) IN
  CASE r.st = "eof" -> [err |-> "ValueError", val |-> PyNone]
    [] r.st = "fmt" -> [err |-> "FormatError", val |-> PyNone]
    [] r.st = "value" -> [err |-> "ValueError", val |-> PyNone]
    [] r.st = "ok" /\ r.next <= Len(data) -> [err |-> "ExtraData", val |-> PyNone]
    [] r.st = "ok" /\ r.next > Len(data) -> [err |-> "none", val |-> r.val]

\* dict.get(key, default) and key in dict, on a decoded map.
RECURSIVE DictGet(_, _, _)
DictGet(pairs, key, default) ==
  IF pairs = << >> THEN default
  ELSE IF pairs[Len(pairs)].k = key THEN pairs[Len(pairs)].val
  ELSE DictGet(SubSeq(pairs, 1, Len(pairs) - 1), key, default)
DictHas(pairs, key) == \E k \in 1..Len(pairs) : pairs[k].k = key

\* ------------------------------------------------------ adats/monitor.py
\* OptimizedMonitor
VARIABLES
  om,          \* the OptimizedMonitor instance: its slots
  disk,        \* the file at the path flush_to_disk writes, or NoFile
  expect,      \* history: the events tracked into the stream, as they should read
  shape        \* history: "clean"; "garbage" once raw bytes follow the events;
               \* "mixed" once events follow raw bytes

NoFile == [nofile |-> TRUE]
DeferredEvents == {"a"}
NoMeta == PyDict(<< >>)
\* The keyword arguments of a track call: duration, **metadata.
DeferredCalls ==
  {[duration |-> NoDuration, metadata |-> NoMeta],
   [duration |-> Some(1), metadata |-> NoMeta],
   [duration |-> NoDuration, metadata |-> PyDict(<<Pair(PyStr("k"), PyInt(1))>>)]}

OptimizedMonitorInit(t) ==
  [start_time |-> t, event_count |-> 0, events_buffer |-> << >>,
   pending_events |-> << >>, metrics |-> << >>,
   buffer_header |->
     Pack(PyDict(<<Pair(PyStr("version"), PyInt(1)),
                   Pair(PyStr("created_at"), PyFloat(WallOffset + t)),
                   Pair(PyStr("format"), PyStr("msgpack"))>>))]

\* _serialize_event: short keys, 'd' and 'm' only when given.
SerializeEventAbsolute(m, t, event, duration, metadata) ==
  Pack(PyDict(
    <<Pair(PyStr("e"), PyStr(event)),
      Pair(PyStr("t"), PyFloat(t)),
      Pair(PyStr("ts"), PyFloat(WallOffset + t))>>
    \o (IF duration # NoDuration THEN <<Pair(PyStr("d"), PyFloat(duration[1]))>> ELSE << >>)
    \o (IF Len(metadata.v) > 0 THEN <<Pair(PyStr("m"), metadata)>> ELSE << >>)))
SerializeEvent(m, t, event, duration, metadata) ==
  Pack(PyDict(
    <<Pair(PyStr("e"), PyStr(event)),
      Pair(PyStr("t"), PyFloat(t - m.start_time)),
      Pair(PyStr("ts"), PyFloat(WallOffset + t))>>
    \o (IF duration # NoDuration THEN <<Pair(PyStr("d"), PyFloat(duration[1]))>> ELSE << >>)
    \o (IF Len(metadata.v) > 0 THEN <<Pair(PyStr("m"), metadata)>> ELSE << >>)))

\* _deserialize_to_readable_format: long keys; optional ones as 0 or 1 value.
Readable(event, timestamp, absolute_timestamp, duration, metadata) ==
  [event |-> event, timestamp |-> timestamp,
   absolute_timestamp |-> absolute_timestamp,
   duration |-> duration, metadata |-> metadata]
DeserializeToReadable(event_data) ==
  Readable(DictGet(event_data.v, PyStr("e"), PyStr("")),
           DictGet(event_data.v, PyStr("t"), PyFloat(0)),
           DictGet(event_data.v, PyStr("ts"), PyFloat(0)),
           IF DictHas(event_data.v, PyStr("d"))
             THEN <<DictGet(event_data.v, PyStr("d"), PyNone)>> ELSE << >>,
           IF DictHas(event_data.v, PyStr("m"))
             THEN <<DictGet(event_data.v, PyStr("m"), PyNone)>> ELSE << >>)

\* _unpack_with_offset on the rest of the buffer: the tuple it returns, or
\* "noreturn" when the loop over the Unpacker ends without a return (the
\* function then returns None), or the ValueError it lets through.
UnpackWithOffset(data) ==
  LET r == UnpackAt(data, 1) IN
  CASE r.st = "ok" -> [kind |-> "tuple", event_data |-> r.val, consumed |-> r.next - 1]
    [] r.st = "eof" -> [kind |-> "noreturn", event_data |-> PyNone, consumed |-> 0]
    [] r.st = "fmt" -> [kind |-> "tuple", event_data |-> PyNone, consumed |-> Len(data)]
    [] r.st = "value" -> [kind |-> "ValueError", event_data |-> PyNone, consumed |-> 0]

\* _parse_buffer: the loop from offset on; ValueError and UnpackException end
\* it with the events so far, any other error leaves the function.
RECURSIVE ParseFrom(_, _, _)
ParseFrom(buf, offset, events) ==
  IF offset >= Len(buf) THEN [err |-> "none", events |-> events]
  ELSE LET r == UnpackWithOffset(SubSeq(buf, offset + 1, Len(buf))) IN
    CASE r.kind = "noreturn" -> [err |-> "TypeError", events |-> << >>]
      [] r.kind = "ValueError" -> [err |-> "none", events |-> events]
      [] r.kind = "tuple" /\ r.event_data.ty = "nil" -> [err |-> "none", events |-> events]
      [] r.kind = "tuple" /\ r.event_data.ty \notin {"nil", "map"} ->
           [err |-> "AttributeError", events |-> << >>]
      [] OTHER ->
           ParseFrom(buf, offset + r.consumed,
                     Append(events, DeserializeToReadable(r.event_data)))
ParseBuffer(buf) ==
  IF buf = << >> THEN [err |-> "none", events |-> << >>]
  ELSE ParseFrom(buf, 0, << >>)

\* OptimizedMonitor.track on monitor state m at clock t.
OptimizedTrackOffByOne(m, t, event, duration, metadata) ==
  IF m.event_count > MaxBufferSize THEN m
  ELSE [m EXCEPT !.events_buffer = @ \o SerializeEvent(m, t, event, duration, metadata),
                 !.event_count = @ + 1]
OptimizedTrack(m, t, event, duration, metadata) ==
  IF m.event_count >= MaxBufferSize THEN m
  ELSE [m EXCEPT !.events_buffer = @ \o SerializeEvent(m, t, event, duration, metadata),
                 !.event_count = @ + 1]

\* OptimizedMonitor.clear_buffer.
OptimizedClearKeepCache(m) ==
  [m EXCEPT !.events_buffer = << >>, !.event_count = 0]
OptimizedClear(m) ==
  [m EXCEPT !.events_buffer = << >>, !.pending_events = << >>, !.event_count = 0]

\* What flush_to_disk writes: header, event-count record, raw buffer.
FileImage(m) ==
  m.buffer_header
    \o Pack(PyDict(<<Pair(PyStr("event_count"), PyInt(m.event_count))>>))
    \o m.events_buffer

\* load_from_disk once the file is open: f.read(len(header)), then f.read()
\* for the count record, then f.read() again (nothing is left) for the buffer.
LoadFromDiskKeepCache(m, file) ==
  LET hlen == Len(m.buffer_header)
      header_data == SubSeq(file, 1, IF Len(file) < hlen THEN Len(file) ELSE hlen)
      header == Unpackb(header_data)
      count_data == Unpackb(SubSeq(file, Len(header_data) + 1, Len(file)))
      m1 == [m EXCEPT !.events_buffer = << >>]
  IN
  IF header.err # "none" THEN [err |-> header.err, m |-> m]
  ELSE IF count_data.err # "none" THEN [err |-> count_data.err, m |-> m]
  ELSE IF count_data.val.ty # "map" THEN [err |-> "TypeError", m |-> m1]
  ELSE IF ~DictHas(count_data.val.v, PyStr("event_count"))
    THEN [err |-> "KeyError", m |-> m1]
  ELSE [err |-> "none",
        m |-> [m1 EXCEPT
                 !.event_count = DictGet(count_data.val.v, PyStr("event_count"), PyNone).v]]
LoadFromDisk(m, file) ==
  LET hlen == Len(m.buffer_header)
      header_data == SubSeq(file, 1, IF Len(file) < hlen THEN Len(file) ELSE hlen)
      header == Unpackb(header_data)
      count_data == Unpackb(SubSeq(file, Len(header_data) + 1, Len(file)))
      m1 == [m EXCEPT !.events_buffer = << >>]
  IN
  IF header.err # "none" THEN [err |-> header.err, m |-> m]
  ELSE IF count_data.err # "none" THEN [err |-> count_data.err, m |-> m]
  ELSE IF count_data.val.ty # "map" THEN [err |-> "TypeError", m |-> m1]
  ELSE IF ~DictHas(count_data.val.v, PyStr("event_count"))
    THEN [err |-> "KeyError", m |-> m1]
  ELSE [err |-> "none",
        m |-> [m1 EXCEPT
                 !.event_count = DictGet(count_data.val.v, PyStr("event_count"), PyNone).v,
                 !.pending_events = << >>]]

\* _count_events_by_type on parsed dicts: event.get('event', 'N/A').
RECURSIVE CountByEvent(_, _)
CountByEvent(events, counts) ==
  IF events = << >> THEN counts
  ELSE LET ty == Head(events).event
           at == {k \in 1..Len(counts) : counts[k].key = ty}
       IN CountByEvent(Tail(events),
            IF at = {} THEN Append(counts, [key |-> ty, n |-> 1])
            ELSE [k \in 1..Len(counts) |->
                    IF k \in at THEN [counts[k] EXCEPT !.n = @ + 1] ELSE counts[k]])

\* _calculate_compression_ratio: 200 bytes per event as the estimate.
CompressionRatio(m) ==
  IF m.event_count = 0 THEN Ratio(0, 1)
  ELSE Ratio(Len(m.events_buffer), m.event_count * 200)

\* OptimizedMonitor.get_events as a function: what is returned, the error, and
\* the monitor with its cache filled.
OptimizedGetEvents(m) ==
  IF m.pending_events # << >>
  THEN [err |-> "none", ret |-> m.pending_events, m |-> m, parsed |-> FALSE]
  ELSE LET r == ParseBuffer(m.events_buffer) IN
       [err |-> r.err, ret |-> r.events, parsed |-> TRUE,
        m |-> IF r.err = "none" THEN [m EXCEPT !.pending_events = r.events] ELSE m]

\* OptimizedMonitor.get_summary: the inherited summary over get_events(), then
\* total_events, buffer_size_bytes and compression_ratio set from the slots.
SummaryOver(m, g) ==
  IF g.err # "none" THEN [err |-> g.err, ret |-> None, m |-> g.m]
  ELSE IF g.ret = << >> THEN [err |-> "IndexError", ret |-> None, m |-> g.m]
  ELSE [err |-> "none", m |-> g.m,
        ret |-> [total_events |-> m.event_count,
                 total_metrics |-> Cardinality(DOMAIN m.metrics),
                 events_by_type |-> CountByEvent(g.ret, << >>),
                 metrics |-> m.metrics,
                 buffer_usage |-> Ratio(m.event_count, MaxBufferSize),
                 buffer_size_bytes |-> Len(m.events_buffer),
                 compression_ratio |-> CompressionRatio(m)]]
OptimizedSummary(m) ==
  CHOOSE s \in {SummaryOver(m, g) : g \in {OptimizedGetEvents(m)}} : TRUE

OptimizedMonitor_track(event, duration, metadata) ==
  /\ om' = OptimizedTrack(om, now, event, duration, metadata)
  /\ IF om.event_count >= MaxBufferSize
     THEN UNCHANGED <<expect, shape>>
     ELSE /\ expect' = Append(expect,
                 Readable(PyStr(event), PyFloat(now - om.start_time),
                          PyFloat(WallOffset + now),
                          IF duration = NoDuration THEN << >> ELSE <<PyFloat(duration[1])>>,
                          IF Len(metadata.v) > 0 THEN <<metadata>> ELSE << >>))
          /\ shape' = IF shape = "clean" THEN "clean" ELSE "mixed"
  /\ last' = [op |-> "track", unit |-> 0, err |-> "none", pre |-> om, at |-> now,
              event |-> event, duration |-> duration, metadata |-> metadata]
  /\ UNCHANGED <<disk, now>>

\* start_timer and stop_timer are inherited from DefaultMonitor and call the
\* deferred track.
OptimizedMonitor_start_timer(name) ==
  /\ om' = OptimizedTrack(om, now, name \o "_started", NoDuration, NoMeta)
  /\ IF om.event_count >= MaxBufferSize
     THEN UNCHANGED <<expect, shape>>
     ELSE /\ expect' = Append(expect,
                 Readable(PyStr(name \o "_started"), PyFloat(now - om.start_time),
                          PyFloat(WallOffset + now), << >>, << >>))
          /\ shape' = IF shape = "clean" THEN "clean" ELSE "mixed"
  /\ last' = [op |-> "start_timer", unit |-> 0, err |-> "none", pre |-> om, at |-> now,
              name |-> name, ret |-> Some(now)]
  /\ UNCHANGED <<disk, now>>

OptimizedMonitor_stop_timer(name, start_time) ==
  LET duration == now - start_time IN
  /\ om' = OptimizedTrack(om, now, name \o "_completed", Some(duration), NoMeta)
  /\ IF om.event_count >= MaxBufferSize
     THEN UNCHANGED <<expect, shape>>
     ELSE /\ expect' = Append(expect,
                 Readable(PyStr(name \o "_completed"), PyFloat(now - om.start_time),
                          PyFloat(WallOffset + now), <<PyFloat(duration)>>, << >>))
          /\ shape' = IF shape = "clean" THEN "clean" ELSE "mixed"
  /\ last' = [op |-> "stop_timer", unit |-> 0, err |-> "none", pre |-> om, at |-> now,
              name |-> name, start_time |-> start_time, ret |-> Some(duration)]
  /\ UNCHANGED <<disk, now>>

OptimizedMonitor_get_events ==
  /\ IF om.pending_events # << >>
     THEN /\ last' = [op |-> "get_events", unit |-> 0, err |-> "none",
                      ret |-> om.pending_events, parsed |-> FALSE,
                      again |-> last.op = "get_events" /\ last.err = "none",
                      before |-> IF last.op = "get_events" THEN last.ret ELSE << >>]
          /\ UNCHANGED om
     ELSE LET r == ParseBuffer(om.events_buffer) IN
          /\ last' = [op |-> "get_events", unit |-> 0, err |-> r.err,
                      ret |-> r.events, parsed |-> TRUE,
                      again |-> last.op = "get_events" /\ last.err = "none",
                      before |-> IF last.op = "get_events" THEN last.ret ELSE << >>]
          /\ om' = IF r.err = "none" THEN [om EXCEPT !.pending_events = r.events] ELSE om
  /\ UNCHANGED <<disk, now, expect, shape>>

OptimizedMonitor_get_summary ==
  \E r \in {OptimizedSummary(om)} :
  /\ om' = r.m
  /\ last' = [op |-> "get_summary", unit |-> 0, err |-> r.err, ret |-> r.ret]
  /\ UNCHANGED <<disk, now, expect, shape>>

\* increment_metric is inherited from DefaultMonitor.
OptimizedMonitor_increment_metric(name, value) ==
  /\ MetricGet(om.metrics, name) + value <= MaxMetric
  /\ om' = [om EXCEPT !.metrics = DictSet(@, name, MetricGet(@, name) + value)]
  /\ last' = [op |-> "increment_metric", unit |-> 0, err |-> "none"]
  /\ UNCHANGED <<disk, now, expect, shape>>

OptimizedMonitor_clear_buffer ==
  /\ om' = OptimizedClear(om)
  /\ expect' = << >>
  /\ shape' = "clean"
  /\ last' = [op |-> "clear_buffer", unit |-> 0, err |-> "none"]
  /\ UNCHANGED <<disk, now>>

\* OptimizedMonitor(): a new monitor, started at the current clock value.
OptimizedMonitor_init ==
  /\ om' = OptimizedMonitorInit(now)
  /\ expect' = << >>
  /\ shape' = "clean"
  /\ last' = [op |-> "init", unit |-> 0, err |-> "none"]
  /\ UNCHANGED <<disk, now>>

\* One event through _serialize_event and back through _parse_buffer.
RoundTripEvents == {"a", "b", ""}
RoundTripDurations == {NoDuration, Some(0), Some(1)}
RoundTripMetadatas ==
  <<NoMeta,
   PyDict(<<Pair(PyStr("k"), PyInt(1))>>),
   PyDict(<<Pair(PyStr("k"), PyNone)>>),
   PyDict(<<Pair(PyStr("k"), PyBool(TRUE)), Pair(PyStr("m"), PyStr("a"))>>),
   PyDict(<<Pair(PyStr("k"), PyDict(<<Pair(PyInt(1), PyInt(1))>>))>>)>>

round_trip(event, duration, metadata) ==
  LET bytes == SerializeEvent(om, now, event, duration, metadata) IN
  /\ last' = [op |-> "round_trip", unit |-> 0, err |-> ParseBuffer(bytes).err,
              event |-> event, duration |-> duration, metadata |-> metadata,
              bytes |-> bytes, parsed |-> ParseBuffer(bytes).events]
  /\ UNCHANGED <<om, disk, expect, shape, dm>>

\* io: whether open() succeeds.
IoOutcomes == {"ok", "open"}
\* The same with a write that fails once the file is open: open(.., 'wb')
\* has emptied the file, and the writes before the failing one may be in it.
WriteOutcomes == IoOutcomes \cup {"write"}
PartialImages(m) ==
  {<< >>, m.buffer_header,
   m.buffer_header \o Pack(PyDict(<<Pair(PyStr("event_count"), PyInt(m.event_count))>>))}

\* Files at the path that no flush_to_disk wrote: the header alone, the header
\* cut short, and the header followed by a count record that is no record
\* (a byte no object starts with), no map, or a map without 'event_count'.
OtherFiles(m) ==
  {m.buffer_header,
   SubSeq(m.buffer_header, 1, 3),
   m.buffer_header \o <<193>>,
   m.buffer_header \o Pack(PyInt(1)),
   m.buffer_header \o Pack(PyDict(<< >>))}

\* Another program leaves a file at the path.
write_file(f) ==
  /\ disk' = f
  /\ last' = [op |-> "write_file", unit |-> 0, err |-> "none"]
  /\ UNCHANGED <<om, now, expect, shape>>


OptimizedMonitor_flush_to_disk(io) ==
  /\ IF io = "open"
     THEN /\ last' = [op |-> "flush_to_disk", unit |-> 0, err |-> "IOError", pre |-> om,
                      io |-> io]
          /\ UNCHANGED <<om, disk, expect, shape>>
     ELSE IF io = "write"
     THEN /\ disk' \in PartialImages(om)
          /\ last' = [op |-> "flush_to_disk", unit |-> 0, err |-> "IOError", pre |-> om,
                      io |-> io]
          /\ UNCHANGED <<om, expect, shape>>
     ELSE /\ disk' = FileImage(om)
          /\ om' = OptimizedClear(om)
          /\ expect' = << >>
          /\ shape' = "clean"
          /\ last' = [op |-> "flush_to_disk", unit |-> 0, err |-> "none", pre |-> om,
                      io |-> io]
  /\ UNCHANGED now

OptimizedMonitor_load_from_disk(io) ==
  /\ IF io = "open" \/ disk = NoFile
     THEN /\ last' = [op |-> "load_from_disk", unit |-> 0, err |-> "IOError",
                      afterFlush |-> FALSE, flushed |-> om, io |-> io, pre |-> om]
          /\ UNCHANGED <<om, expect, shape>>
     ELSE LET r == LoadFromDisk(om, disk) IN
          /\ om' = r.m
          /\ expect' = IF r.m.events_buffer = om.events_buffer THEN expect ELSE << >>
          /\ shape' = IF r.m.events_buffer = om.events_buffer THEN shape ELSE "clean"
          /\ last' = [op |-> "load_from_disk", unit |-> 0, err |-> r.err,
                      afterFlush |-> last.op = "flush_to_disk" /\ last.err = "none",
                      flushed |-> IF last.op = "flush_to_disk" THEN last.pre ELSE om,
                      io |-> io, pre |-> om]
  /\ UNCHANGED <<disk, now>>

\* Bytes that are no encoded event, written after the events in _events_buffer.
GarbageBytes == {5, 128, 129, 192, 193}
Garbage == UNION {[1..n -> GarbageBytes] : n \in 1..MaxGarbage}

AppendRaw(g) ==
  /\ shape = "clean"
  /\ om' = [om EXCEPT !.events_buffer = @ \o g]
  /\ shape' = "garbage"
  /\ last' = [op |-> "append_raw", unit |-> 0, err |-> "none"]
  /\ UNCHANGED <<disk, now, expect>>

\* -------------------------------------------------- decorators/sentinel.py
VARIABLES
  wrapped,     \* the closure of the decorated function: kind and the three *_obj
  calls,       \* per unit, where its invocation of the wrapper stands
  stream       \* the lines written to the reports' output stream, in order

sentinelVars == <<wrapped, calls, stream>>

\* Objects handed to sentinel or built by it. NoneArg is Python's None.
NoneArg == [cls |-> "NoneType", origin |-> "none", log_level |-> "none"]
PassedSession == [cls |-> "DefaultSession", origin |-> "passed", log_level |-> "none"]
PassedMonitor == [cls |-> "DefaultMonitor", origin |-> "passed", log_level |-> "none"]
PassedReport == [cls |-> "DefaultReport", origin |-> "passed", log_level |-> "DEBUG"]
DefaultSession == [cls |-> "DefaultSession", origin |-> "default", log_level |-> "none"]
DefaultMonitor == [cls |-> "DefaultMonitor", origin |-> "default", log_level |-> "none"]
\* adats/report.py: DefaultReport() has log_level "INFO".
DefaultReport == [cls |-> "DefaultReport", origin |-> "default", log_level |-> "INFO"]

\* The eight ways of passing or omitting the three arguments.
SentinelArgs ==
  [session : {NoneArg, PassedSession}, monitor : {NoneArg, PassedMonitor},
   report : {NoneArg, PassedReport}]
WrapperKinds == {"sync", "async"}

\* sentinel(session, monitor, report): the three objects the wrappers close over.
Sentinel(session, monitor, report) ==
  [session_obj |-> IF session # NoneArg THEN session ELSE DefaultSession,
   monitor_obj |-> IF session # NoneArg THEN monitor ELSE DefaultMonitor,
   report_obj |-> IF session # NoneArg THEN report ELSE DefaultReport]

\* adats/report.py: the level table, _should_log and log.
Levels == [l \in {"DEBUG", "INFO", "WARNING", "ERROR", "CRITICAL"} |->
             CASE l = "DEBUG" -> 10 [] l = "INFO" -> 20 [] l = "WARNING" -> 30
               [] l = "ERROR" -> 40 [] l = "CRITICAL" -> 50]
LevelOf(l) == IF l \in DOMAIN Levels THEN Levels[l] ELSE 20
ShouldLogAbove(report, level) == LevelOf(level) > LevelOf(report.log_level)
ShouldLog(report, level) == LevelOf(level) >= LevelOf(report.log_level)
ReportLog(s, report, u, level, line) ==
  IF ShouldLog(report, level)
  THEN Append(s, [unit |-> u, level |-> level, line |-> line])
  ELSE s

\* The lines unit u has written after the first mark lines of the stream.
RECURSIVE LinesOf(_, _, _)
LinesOf(s, u, mark) ==
  IF Len(s) <= mark THEN << >>
  ELSE LET rest == LinesOf(SubSeq(s, 1, Len(s) - 1), u, mark) IN
       IF s[Len(s)].unit = u THEN Append(rest, s[Len(s)].line) ELSE rest

\* How the decorated function's body can end.
BodyEnds(kind) ==
  IF kind = "async" THEN {"return", "raise", "base", "cancel"}
  ELSE {"return", "raise", "base"}
\* except Exception: what it catches.
IsException(how) == how = "raise"
Raised(how) ==
  CASE how = "raise" -> "BodyError"
    [] how = "base" -> "BaseException"
    [] how = "cancel" -> "CancelledError"
    [] OTHER -> "none"

\* Two context values are the same entry: both unset, or the same dict object.
SameEntry(a, b) ==
  IF a = None \/ b = None THEN a = None /\ b = None ELSE a.id = b.id

Idle == [pc |-> "idle", mark |-> 0, tok |-> 0]

\* @sentinel(...) applied to a function of the given kind.
sentinel(args, kind) ==
  /\ \A u \in Units : calls[u].pc = "idle"
  /\ wrapped' = [kind |-> kind, given |-> args]
                  @@ Sentinel(args.session, args.monitor, args.report)
  /\ last' = [op |-> "sentinel", unit |-> 0, err |-> "none"]
  /\ UNCHANGED <<ctxVars, calls, stream>>

\* The wrapper up to the call of the function: the start line, then the guard
\* is entered (set_context with the three objects).
wrapper_begin(u) ==
  /\ wrapped.kind # "none"
  /\ calls[u].pc = "idle"
  /\ IF wrapped.report_obj = NoneArg
     THEN /\ last' = [op |-> "wrapper_begin", unit |-> u, err |-> "AttributeError",
                      started |-> FALSE]
          /\ UNCHANGED <<ctxVars, calls, stream>>
     ELSE LET t == Len(tokens) + 1 IN
          /\ t <= MaxTokens
          /\ stream' = ReportLog(stream, wrapped.report_obj, u, "DEBUG", "Starting")
          /\ tokens' = Append(tokens, NewToken(context, u, wrapped.kind))
          /\ context' = SetVar(context, u,
                 [session |-> wrapped.session_obj, monitor |-> wrapped.monitor_obj,
                  report |-> wrapped.report_obj, id |-> t])
          /\ stack' = [stack EXCEPT ![u] = Append(@, [tok |-> t, prev |-> context[u]])]
          /\ resets' = resets @@ (t :> 0)
          /\ scopes' = [scopes EXCEPT ![u] = Append(@, t)]
          /\ calls' = [calls EXCEPT ![u] = [pc |-> "body", mark |-> Len(stream), tok |-> t]]
          /\ last' = [op |-> "wrapper_begin", unit |-> u, err |-> "none",
                      started |-> ShouldLog(wrapped.report_obj, "DEBUG")]
          /\ UNCHANGED lifo
  /\ UNCHANGED wrapped

\* The function's body ends: the completion or error line, then the guard's
\* finally resets the context, and the exception, if any, reaches the caller.
wrapper_end(u, how) ==
  /\ calls[u].pc = "body"
  /\ how \in BodyEnds(wrapped.kind)
  /\ LET t == calls[u].tok
         s1 == IF how = "return"
                 THEN ReportLog(stream, wrapped.report_obj, u, "DEBUG", "Completed")
               ELSE IF IsException(how)
                 THEN ReportLog(stream, wrapped.report_obj, u, "ERROR", "Exception")
               ELSE stream
     IN
     /\ stream' = s1
     /\ scopes' = [scopes EXCEPT ![u] = SubSeq(@, 1, Len(@) - 1)]
     /\ IF CleanupRuns(how) /\ ResetError(u, t) = "none"
        THEN Restore(u, t)
        ELSE UNCHANGED <<context, tokens, stack, lifo, resets>>
     /\ calls' = [calls EXCEPT ![u] = Idle]
     /\ last' = [op |-> "wrapper_end", unit |-> u, how |-> how,
                 err |-> IF CleanupRuns(how) /\ ResetError(u, t) # "none"
                         THEN ResetError(u, t) ELSE Raised(how),
                 lines |-> LinesOf(s1, u, calls[u].mark),
                 restored |-> CleanupRuns(how) /\ ResetError(u, t) = "none"
                              /\ SameEntry(tokens[t].old, stack[u][Len(stack[u])].prev)]
  /\ UNCHANGED wrapped

\* -------------------------------------------------- decorators/sentinel.py
\* The body of a decorated function calling monitor.track, from several
\* threads: DefaultMonitor.track statement by statement.
MaxTracks == 3

VARIABLES
  trk,         \* per unit, where its call of track stands, and its locals
  tracked      \* history: track calls started, and those that got past the
               \* capacity check and returned

trackVars == <<trk, tracked>>

NotTracking == [pc |-> "idle", event |-> "", elapsed |-> 0, count |-> 0, into |-> 0]

\* The monitor objects a decoration can hold, by identity: 0 is no object
\* (None), 1 the DefaultMonitor() built at sentinel.py:36 when the decorator
\* is applied, 2 the object the caller passed.
InstanceOf(obj) ==
  CASE obj = NoneArg -> 0
    [] obj.origin = "default" -> 1
    [] obj.origin = "passed" -> 2

\* monitor.track(event) in the body: the proxy resolves the monitor of the
\* caller's current entry; line 30, the capacity check.
DefaultMonitor_track_check(u, event) ==
  /\ calls[u].pc = "body"
  /\ trk[u].pc = "idle"
  /\ tracked.started < MaxTracks
  /\ LET r == Resolve(context, u, "monitor") IN
     IF r.err # "none" \/ r.obj = NoneArg
     THEN /\ last' = [op |-> "track", unit |-> u,
                      err |-> IF r.err # "none" THEN r.err ELSE "AttributeError"]
          /\ UNCHANGED <<trk, tracked, dm>>
     ELSE /\ tracked' = [tracked EXCEPT !.started = @ + 1]
          /\ IF dm.event_count >= MaxBufferSize
             THEN /\ trk' = [trk EXCEPT ![u] = [NotTracking EXCEPT !.into = InstanceOf(r.obj)]]
                  /\ last' = [op |-> "track", unit |-> u, err |-> "none"]
             ELSE /\ trk' = [trk EXCEPT ![u] =
                               [pc |-> "store", event |-> event,
                                elapsed |-> now - dm.start_time, count |-> 0,
                                into |-> InstanceOf(r.obj)]]
                  /\ last' = [op |-> "track_check", unit |-> u, err |-> "none"]
          /\ UNCHANGED dm

\* Line 38: self._events_buffer[self._event_count] = elapsed, on an array of
\* max_buffer_size slots.
DefaultMonitor_track_store(u) ==
  /\ trk[u].pc = "store"
  /\ IF dm.event_count >= MaxBufferSize
     THEN /\ trk' = [trk EXCEPT ![u].pc = "idle"]
          /\ last' = [op |-> "track", unit |-> u, err |-> "IndexError"]
          /\ UNCHANGED dm
     ELSE /\ dm' = [dm EXCEPT !.events_buffer[dm.event_count + 1] = trk[u].elapsed]
          /\ trk' = [trk EXCEPT ![u].pc = "append"]
          /\ last' = [op |-> "track_store", unit |-> u, err |-> "none"]
  /\ UNCHANGED tracked

\* Lines 40-51: the record is built and appended to the deque.
DefaultMonitor_track_append(u) ==
  /\ trk[u].pc = "append"
  /\ dm' = [dm EXCEPT !.events_metadata =
              DequeAppend(@, update_metadata(
                               EventRecord(trk[u].event, trk[u].elapsed, NoMetadata),
                               NoMetadata), MaxBufferSize)]
  /\ trk' = [trk EXCEPT ![u].pc = "load"]
  /\ last' = [op |-> "track_append", unit |-> u, err |-> "none"]
  /\ UNCHANGED tracked

\* Line 52: self._event_count += 1 is a read, an addition and a write.
DefaultMonitor_track_count_load(u) ==
  /\ trk[u].pc = "load"
  /\ trk' = [trk EXCEPT ![u].pc = "incr", ![u].count = dm.event_count]
  /\ last' = [op |-> "track_load", unit |-> u, err |-> "none"]
  /\ UNCHANGED <<dm, tracked>>

DefaultMonitor_track_count_store(u) ==
  /\ trk[u].pc = "incr"
  /\ dm' = [dm EXCEPT !.event_count = trk[u].count + 1]
  /\ trk' = [trk EXCEPT ![u].pc = "idle"]
  /\ tracked' = [tracked EXCEPT !.done = @ + 1]
  /\ last' = [op |-> "track", unit |-> u, err |-> "none"]

\* -------------------------------------------------------- adats/report.py
\* DefaultReport.log with its text: what reaches the output stream
MaxWrites == 2

VARIABLES
  dr,          \* the DefaultReport instance: its log level
  out          \* the text written to its output stream, piece by piece

reportVars == <<dr, out>>

\* Level names callers pass: the five of the table, and names outside it.
LevelNames == {"DEBUG", "INFO", "WARNING", "ERROR", "CRITICAL", "TRACE", "debug"}

\* Text as a sequence of pieces; LineBreak is the character '\n'.
LineBreak == "\n"
Messages == {<<"m">>, <<"a", LineBreak, "b">>}
\* The keyword fields of a call: none, or some.
FieldSets == {<< >>, <<"k">>}

\* _format_message: "[timestamp] LEVEL: message", then " | " and the fields
\* as JSON (which escapes line breaks) when there are any.
FormatMessage(message, level, fields) ==
  <<"[", "timestamp", "] ", level, ": ">> \o message
    \o (IF fields # << >> THEN <<" | ", "json">> ELSE << >>)

\* The number of write calls the stream has received.
Writes(text) == Cardinality({k \in 1..Len(text) : text[k] = "timestamp"})

\* DefaultReport(output_stream=<new stream>, log_level=level)
DefaultReport_init(level) ==
  /\ dr' = [log_level |-> level]
  /\ out' = << >>
  /\ last' = [op |-> "init", unit |-> 0, err |-> "none"]

\* DefaultReport.log: one write of the formatted message and a line break
\* when _should_log says so.
DefaultReport_log(message, level, fields) ==
  /\ Writes(out) < MaxWrites
  /\ \E text \in {IF ShouldLog(dr, level)
                  THEN FormatMessage(message, level, fields) \o <<LineBreak>>
                  ELSE << >>} :
       /\ out' = out \o text
       /\ last' = [op |-> "log", unit |-> 0, err |-> "none", level |-> level,
                   message |-> message, fields |-> fields, wrote |-> text,
                   writes |-> IF ShouldLog(dr, level) THEN 1 ELSE 0]
  /\ UNCHANGED dr

\* ---------------------------------------------------------- specification
\* Variables that one specification each uses.
restVars == <<trackVars, deltas, reportVars, spawned>>

vars == <<context, tokens, scopes, last, stack, lifo, resets, proxyAttrs, now, dm,
          om, disk, expect, shape, wrapped, calls, stream, snapshots, trk, tracked, deltas, dr, out, spawned>>

Init ==
  /\ context = [u \in Units |-> None]
  /\ tokens = << >>
  /\ scopes = [u \in Units |-> << >>]
  /\ last = [op |-> "init", unit |-> 0, err |-> "none"]
  /\ stack = [u \in Units |-> << >>]
  /\ lifo = [u \in Units |-> TRUE]
  /\ resets = << >>
  /\ proxyAttrs = [r \in Roles |-> [n \in {"_key"} |-> r]]
  /\ now = 0
  /\ dm = DefaultMonitorInit(0)
  /\ om = OptimizedMonitorInit(0)
  /\ disk = NoFile
  /\ expect = << >>
  /\ shape = "clean"
  /\ wrapped = [kind |-> "none"]
  /\ calls = [u \in Units |-> Idle]
  /\ stream = << >>
  /\ snapshots = << >>
  /\ trk = [u \in Units |-> NotTracking]
  /\ tracked = [started |-> 0, done |-> 0]
  /\ deltas = << >>
  /\ dr = [log_level |-> "INFO"]
  /\ out = << >>
  /\ spawned = [u \in Units |-> [from |-> 0, entry |-> None]]

\* Context store and scope guards, any interleaving of the units.
NextCtx ==
  \/ \E u \in Units, i \in AdatIds : set_context(u, i) /\ UNCHANGED <<proxyAttrs, now, dm, om, disk, expect, shape, sentinelVars, snapshots, restVars>>
  \/ \E u \in Units : get_context(u) /\ UNCHANGED <<proxyAttrs, now, dm, om, disk, expect, shape, sentinelVars, snapshots, restVars>>
  \/ \E u \in Units, t \in 1..Len(tokens) : reset_context(u, t) /\ UNCHANGED <<proxyAttrs, now, dm, om, disk, expect, shape, sentinelVars, snapshots, restVars>>
  \/ \E u \in Units, k \in {"sync", "async"}, i \in AdatIds :
       bifrost_enter(u, k, i) /\ UNCHANGED <<proxyAttrs, now, dm, om, disk, expect, shape, sentinelVars, snapshots, restVars>>
  \/ \E u \in Units, h \in {"return", "raise", "early", "cancel"} :
       bifrost_exit(u, h) /\ UNCHANGED <<proxyAttrs, now, dm, om, disk, expect, shape, sentinelVars, snapshots, restVars>>

SpecCtx == Init /\ [][NextCtx]_vars

\* The proxies used inside and outside guarded scopes, by two units.
ProxyUnits == {1, 2}
NextProxy ==
  \/ \E u \in ProxyUnits, i \in AdatIds : bifrost_enter(u, "sync", i) /\ UNCHANGED <<proxyAttrs, now, dm, om, disk, expect, shape, sentinelVars, snapshots, restVars>>
  \/ \E u \in ProxyUnits, h \in {"return"} : bifrost_exit(u, h) /\ UNCHANGED <<proxyAttrs, now, dm, om, disk, expect, shape, sentinelVars, snapshots, restVars>>
  \/ \E u \in ProxyUnits : get_context(u) /\ UNCHANGED <<proxyAttrs, now, dm, om, disk, expect, shape, sentinelVars, snapshots, restVars>>
  \/ \E u \in ProxyUnits, r \in Roles, p \in ProxyOps, n \in AttrNames \cup ClassAttrs,
        v \in AttrVals :
       /\ p \in ForwardOps => n = "x"
       /\ p = "setattr" => n \in AttrNames
       /\ proxy_op(u, r, p, n, v)
       /\ UNCHANGED <<now, dm, om, disk, expect, shape, sentinelVars, snapshots, restVars>>

SpecProxy == Init /\ [][NextProxy]_vars

\* One eager monitor used by one unit.
otherVars == <<context, tokens, scopes, stack, lifo, resets, proxyAttrs, sentinelVars, snapshots, restVars>>
deferredVars == <<om, disk, expect, shape>>

NextEager ==
  \/ Tick /\ UNCHANGED <<otherVars, deferredVars>>
  \/ \E e \in Events, d \in Durations, md \in Metadatas :
       DefaultMonitor_track(e, d, md) /\ UNCHANGED <<otherVars, deferredVars>>
  \/ \E n \in TimerNames : DefaultMonitor_start_timer(n) /\ UNCHANGED <<otherVars, deferredVars>>
  \/ \E n \in TimerNames, st \in 0..now, md \in Metadatas :
       DefaultMonitor_stop_timer(n, st, md) /\ UNCHANGED <<otherVars, deferredVars>>
  \/ DefaultMonitor_get_events /\ UNCHANGED <<otherVars, deferredVars>>
  \/ DefaultMonitor_get_summary /\ UNCHANGED <<otherVars, deferredVars>>
  \/ DefaultMonitor_clear_buffer /\ UNCHANGED <<otherVars, deferredVars>>

SpecEager == Init /\ [][NextEager]_vars

\* One deferred monitor used by one unit, with its file.
NextDeferred ==
  \/ \E e \in DeferredEvents, c \in DeferredCalls :
       OptimizedMonitor_track(e, c.duration, c.metadata) /\ UNCHANGED <<otherVars, dm>>
  \/ OptimizedMonitor_get_events /\ UNCHANGED <<otherVars, dm>>
  \/ OptimizedMonitor_clear_buffer /\ UNCHANGED <<otherVars, dm>>
  \/ OptimizedMonitor_get_summary /\ UNCHANGED <<otherVars, dm>>
  \/ \E io \in IoOutcomes : OptimizedMonitor_flush_to_disk(io) /\ UNCHANGED <<otherVars, dm>>
  \/ \E io \in IoOutcomes : OptimizedMonitor_load_from_disk(io) /\ UNCHANGED <<otherVars, dm>>

SpecDeferred == Init /\ [][NextDeferred]_vars

\* One decorated function, invoked from any unit, units interleaved.
NextSentinel ==
  \/ \E a \in SentinelArgs, k \in WrapperKinds :
       sentinel(a, k) /\ UNCHANGED <<proxyAttrs, now, dm, deferredVars, snapshots, restVars>>
  \/ \E u \in Units : wrapper_begin(u) /\ UNCHANGED <<proxyAttrs, now, dm, deferredVars, snapshots, restVars>>
  \/ \E u \in Units :
       get_context(u) /\ UNCHANGED <<proxyAttrs, now, dm, deferredVars, sentinelVars, snapshots, restVars>>
  \/ \E u \in Units, h \in {"return", "raise", "base", "cancel"} :
       wrapper_end(u, h) /\ UNCHANGED <<proxyAttrs, now, dm, deferredVars, snapshots, restVars>>

SpecSentinel == Init /\ [][NextSentinel]_vars

\* The metrics table of one eager monitor and the snapshots its callers hold.
NextMetrics ==
  \/ DefaultMonitor_track("a", NoDuration, NoMetadata)
       /\ UNCHANGED <<ctxVars, proxyAttrs, sentinelVars, deferredVars, snapshots, restVars>>
  \/ \E n \in MetricNames, v \in MetricDeltas :
       DefaultMonitor_increment_metric(n, v)
         /\ UNCHANGED <<ctxVars, proxyAttrs, sentinelVars, deferredVars, restVars>>
  \/ DefaultMonitor_get_metrics /\ UNCHANGED <<ctxVars, proxyAttrs, sentinelVars, deferredVars, restVars>>
  \/ DefaultMonitor_get_summary_metrics
       /\ UNCHANGED <<ctxVars, proxyAttrs, sentinelVars, deferredVars, restVars>>
  \/ \E k \in 1..MaxSnapshots, n \in {"hits"}, v \in {0} :
       snapshot_write(k, n, v) /\ UNCHANGED <<ctxVars, proxyAttrs, sentinelVars, deferredVars, restVars>>

SpecMetrics == Init /\ [][NextMetrics]_vars

\* Single events encoded and parsed back, at any clock value.
NextRoundTrip ==
  \/ Tick /\ UNCHANGED <<otherVars, deferredVars>>
  \/ \E e \in RoundTripEvents, d \in RoundTripDurations, k \in 1..Len(RoundTripMetadatas) :
       round_trip(e, d, RoundTripMetadatas[k]) /\ UNCHANGED <<otherVars, now>>

SpecRoundTrip == Init /\ [][NextRoundTrip]_vars

\* An eager and a deferred monitor side by side, filled to capacity and beyond.
NextCapacity ==
  \/ \E d \in Durations :
       DefaultMonitor_track("a", d, NoMetadata) /\ UNCHANGED <<otherVars, deferredVars>>
  \/ \E n \in TimerNames : DefaultMonitor_start_timer(n) /\ UNCHANGED <<otherVars, deferredVars>>
  \/ \E n \in TimerNames, st \in 0..now :
       DefaultMonitor_stop_timer(n, st, NoMetadata) /\ UNCHANGED <<otherVars, deferredVars>>
  \/ DefaultMonitor_increment_metric("hits", 1)
       /\ UNCHANGED <<ctxVars, proxyAttrs, sentinelVars, deferredVars, restVars>>
  \/ OptimizedMonitor_track("a", NoDuration, NoMeta) /\ UNCHANGED <<otherVars, dm>>
  \/ \E n \in TimerNames : OptimizedMonitor_start_timer(n) /\ UNCHANGED <<otherVars, dm>>
  \/ \E n \in TimerNames, st \in 0..now :
       OptimizedMonitor_stop_timer(n, st) /\ UNCHANGED <<otherVars, dm>>
  \/ OptimizedMonitor_get_events /\ UNCHANGED <<otherVars, dm>>

SpecCapacity == Init /\ [][NextCapacity]_vars

\* One deferred monitor filled with events, then given a tail of raw bytes.
NextCorrupt ==
  \/ \E e \in DeferredEvents, c \in DeferredCalls :
       /\ shape = "clean"
       /\ OptimizedMonitor_track(e, c.duration, c.metadata)
       /\ UNCHANGED <<otherVars, dm>>
  \/ OptimizedMonitor_get_events /\ UNCHANGED <<otherVars, dm>>
  \/ OptimizedMonitor_clear_buffer /\ UNCHANGED <<otherVars, dm>>
  \/ \E g \in Garbage : AppendRaw(g) /\ UNCHANGED <<otherVars, dm>>

SpecCorrupt == Init /\ [][NextCorrupt]_vars

\* One decorated function whose body tracks events, invoked from two threads.
NextShared ==
  \/ \E a \in SentinelArgs, k \in WrapperKinds :
       /\ wrapped.kind = "none"
       /\ sentinel(a, k)
       /\ UNCHANGED <<proxyAttrs, now, dm, deferredVars, snapshots, trackVars, deltas, reportVars, spawned>>
  \/ \E u \in Units :
       wrapper_begin(u) /\ UNCHANGED <<proxyAttrs, now, dm, deferredVars, snapshots, trackVars, deltas, reportVars, spawned>>
  \/ \E u \in Units, e \in Events :
       /\ DefaultMonitor_track_check(u, e)
       /\ UNCHANGED <<ctxVars, proxyAttrs, now, deferredVars, sentinelVars, snapshots, deltas, reportVars, spawned>>
  \/ \E u \in Units :
       /\ \/ DefaultMonitor_track_store(u)
          \/ DefaultMonitor_track_append(u)
          \/ DefaultMonitor_track_count_load(u)
          \/ DefaultMonitor_track_count_store(u)
       /\ UNCHANGED <<ctxVars, proxyAttrs, now, deferredVars, sentinelVars, snapshots, deltas, reportVars, spawned>>
  \/ \E u \in Units, h \in {"return", "raise"} :
       /\ trk[u].pc = "idle"
       /\ wrapper_end(u, h)
       /\ trk' = [trk EXCEPT ![u] = NotTracking]
       /\ UNCHANGED <<proxyAttrs, now, dm, deferredVars, snapshots, tracked, deltas, reportVars, spawned>>

SpecShared == Init /\ [][NextShared]_vars

\* A monitor of either variant, built at any clock value and used while the
\* clock moves on; the program uses one monitor at a time, the other one is
\* as constructed.
NextClock ==
  \/ Tick /\ UNCHANGED <<otherVars, deferredVars>>
  \/ DefaultMonitor_init /\ UNCHANGED <<otherVars, deferredVars>>
  \/ /\ om = OptimizedMonitorInit(om.start_time)
     /\ \/ DefaultMonitor_track("a", NoDuration, NoMetadata)
        \/ \E n \in TimerNames : DefaultMonitor_start_timer(n)
        \/ \E n \in TimerNames : DefaultMonitor_stop_timer(n, 0, NoMetadata)
        \/ DefaultMonitor_get_events
        \/ DefaultMonitor_clear_buffer
     /\ UNCHANGED <<otherVars, deferredVars>>
  \/ OptimizedMonitor_init /\ UNCHANGED <<otherVars, dm>>
  \/ /\ dm = DefaultMonitorInit(dm.start_time)
     /\ \/ OptimizedMonitor_track("a", NoDuration, NoMeta)
        \/ \E n \in TimerNames : OptimizedMonitor_start_timer(n)
        \/ \E n \in TimerNames : OptimizedMonitor_stop_timer(n, 0)
        \/ OptimizedMonitor_get_events
        \/ OptimizedMonitor_clear_buffer
     /\ UNCHANGED <<otherVars, dm>>

SpecClock == Init /\ [][NextClock]_vars

\* The metrics table of one eager monitor under increment_metric calls, with
\* events stored in between.
NextTotals ==
  \/ \E n \in MetricNames, a \in ValueArgs :
       increment_metric_call(n, a)
         /\ UNCHANGED <<ctxVars, proxyAttrs, sentinelVars, deferredVars, trackVars, reportVars, spawned>>
  \/ DefaultMonitor_track("a", NoDuration, NoMetadata)
       /\ UNCHANGED <<otherVars, deferredVars>>
  \/ DefaultMonitor_get_events /\ UNCHANGED <<otherVars, deferredVars>>

SpecTotals == Init /\ [][NextTotals]_vars

\* One report, built with any log level, logging at any level.
NextReport ==
  \/ \E l \in LevelNames :
       DefaultReport_init(l)
         /\ UNCHANGED <<ctxVars, proxyAttrs, now, dm, deferredVars, sentinelVars,
                        snapshots, trackVars, deltas, spawned>>
  \/ \E m \in Messages, l \in LevelNames, f \in FieldSets :
       DefaultReport_log(m, l, f)
         /\ UNCHANGED <<ctxVars, proxyAttrs, now, dm, deferredVars, sentinelVars,
                        snapshots, trackVars, deltas, spawned>>

SpecReport == Init /\ [][NextReport]_vars

\* A monitor of either variant used by a single unit through every call that
\* touches the store or the count; the program uses one monitor at a time,
\* the other one is as constructed.
NextSingle ==
  \/ DefaultMonitor_init /\ UNCHANGED <<otherVars, deferredVars>>
  \/ /\ om = OptimizedMonitorInit(om.start_time)
     /\ \/ \E d \in Durations : DefaultMonitor_track("a", d, NoMetadata)
        \/ \E n \in TimerNames : DefaultMonitor_start_timer(n)
        \/ \E n \in TimerNames : DefaultMonitor_stop_timer(n, 0, NoMetadata)
        \/ DefaultMonitor_get_events
        \/ DefaultMonitor_get_summary
        \/ DefaultMonitor_clear_buffer
     /\ UNCHANGED <<otherVars, deferredVars>>
  \/ /\ om = OptimizedMonitorInit(om.start_time)
     /\ DefaultMonitor_increment_metric("hits", 1)
     /\ UNCHANGED <<ctxVars, proxyAttrs, sentinelVars, deferredVars, restVars>>
  \/ OptimizedMonitor_init /\ UNCHANGED <<otherVars, dm>>
  \/ /\ dm = DefaultMonitorInit(dm.start_time)
     /\ \/ \E c \in DeferredCalls : OptimizedMonitor_track("a", c.duration, c.metadata)
        \/ \E n \in TimerNames : OptimizedMonitor_start_timer(n)
        \/ \E n \in TimerNames : OptimizedMonitor_stop_timer(n, 0)
        \/ OptimizedMonitor_increment_metric("hits", 1)
        \/ OptimizedMonitor_get_events
        \/ OptimizedMonitor_get_summary
        \/ OptimizedMonitor_clear_buffer
     /\ UNCHANGED <<otherVars, dm>>

SpecSingle == Init /\ [][NextSingle]_vars

\* One deferred monitor and the file at its path: flushes and loads that
\* fail at any step, and files that no flush wrote.
NextFiles ==
  \/ \E c \in DeferredCalls :
       OptimizedMonitor_track("a", c.duration, c.metadata) /\ UNCHANGED <<otherVars, dm>>
  \/ OptimizedMonitor_get_events /\ UNCHANGED <<otherVars, dm>>
  \/ \E io \in WriteOutcomes : OptimizedMonitor_flush_to_disk(io) /\ UNCHANGED <<otherVars, dm>>
  \/ \E io \in IoOutcomes : OptimizedMonitor_load_from_disk(io) /\ UNCHANGED <<otherVars, dm>>
  \/ \E f \in OtherFiles(om) : write_file(f) /\ UNCHANGED <<otherVars, dm>>

SpecFiles == Init /\ [][NextFiles]_vars

\* Units that activate and restore entries and spawn tasks, any interleaving.
NextSpawn ==
  \/ \E u \in Units :
       set_context(u, 1)
         /\ UNCHANGED <<proxyAttrs, now, dm, deferredVars, sentinelVars, snapshots, restVars>>
  \/ \E u \in Units :
       get_context(u)
         /\ UNCHANGED <<proxyAttrs, now, dm, deferredVars, sentinelVars, snapshots, restVars>>
  \/ \E u \in Units, t \in 1..Len(tokens) :
       reset_context(u, t)
         /\ UNCHANGED <<proxyAttrs, now, dm, deferredVars, sentinelVars, snapshots, restVars>>
  \/ \E u \in Units, c \in Units :
       copy_current_context(u, c)
         /\ UNCHANGED <<proxyAttrs, now, dm, deferredVars, sentinelVars, snapshots,
                        trackVars, deltas, reportVars>>

SpecSpawn == Init /\ [][NextSpawn]_vars

\* ------------------------------------------------------------------ claims
Top(q) == q[Len(q)]

\* C1: after a reset_context paired innermost-first with its set_context, the
\* current entry is the one that was current just before that set_context;
\* while a unit keeps that discipline, get_context returns the innermost
\* entry not yet undone and raises the not-active error when none is left.
C1_NestedRestore ==
  /\ (last.op = "reset_context" /\ last.err = "none" /\ last.paired)
       => context[last.unit] = last.prev
  /\ (last.op = "get_context" /\ lifo[last.unit])
       => IF stack[last.unit] = << >>
          THEN last.err = "NotActive"
          ELSE last.err = "none" /\ last.ret.id = Top(stack[last.unit]).tok

\* activate(A), activate(B), restore(tokenB): A is current again.
C1_Witness ==
  /\ last.op = "reset_context" /\ last.err = "none" /\ last.paired
  /\ last.prev # None
  /\ context[last.unit] = last.prev
  /\ tokens[last.tok].old = last.prev

C3_GuardRestoresOnce ==
  /\ \A t \in 1..Len(tokens) :
       tokens[t].kind \in {"sync", "async"} =>
         IF \E u \in Units : \E k \in 1..Len(scopes[u]) : scopes[u][k] = t
         THEN resets[t] = 0 /\ ~tokens[t].used
         ELSE resets[t] = 1 /\ tokens[t].used
  /\ last.op = "bifrost_exit" =>
       /\ last.how = "raise" => last.err = "BodyError"
       /\ last.how = "cancel" => last.err = "CancelledError"
       /\ last.how \in {"return", "early"} => last.err = "none"

\* A scope whose body raised: restored once, error propagated.
C3_Witness ==
  /\ last.op = "bifrost_exit" /\ last.how = "raise" /\ last.err = "BodyError"
  /\ resets[last.tok] = 1
  /\ context[last.unit] = tokens[last.tok].old

\* The proxy operations that never consult the context store: a write of an
\* underscore name, a read of a name found on the proxy object.
ActsOnProxy ==
  \/ last.pop = "setattr" /\ StartsWithUnderscore(last.name)
  \/ last.pop = "getattr" /\ FoundOnProxy(proxyAttrs, last.role, last.name)

\* C8 as stated: with no entry active, every proxy operation raises the
\* not-active error.
C8_Original ==
  /\ (last.op = "get_context" /\ context[last.unit] = None) => last.err = "NotActive"
  /\ (last.op = "proxy" /\ context[last.unit] = None) => last.err = "NotActive"

\* C8 amended: with no entry active, get_context raises the not-active error
\* and so does every proxy operation that is forwarded; a write of an
\* underscore name and a read of a name found on the proxy itself raise nothing.
C8_NotActive ==
  /\ (last.op = "get_context" /\ context[last.unit] = None) => last.err = "NotActive"
  /\ (last.op = "proxy" /\ context[last.unit] = None) =>
       IF ActsOnProxy THEN last.err = "none" /\ last.target = OnProxy(last.role)
       ELSE last.err = "NotActive"

\* A forwarded operation made after every activation was restored.
C8_Witness ==
  /\ last.op = "proxy" /\ ~ActsOnProxy /\ last.err = "NotActive"
  /\ context[last.unit] = None
  /\ \E t \in 1..Len(tokens) : tokens[t].ctx = last.unit /\ tokens[t].used

\* C9 as stated: every proxy operation reaches the collaborator of the
\* proxy's role in the caller's current entry, never the proxy itself.
C9_Original ==
  (last.op = "proxy" /\ last.err = "none")
    => /\ context[last.unit] # None
       /\ last.target = context[last.unit][last.role]

\* C9 amended: a forwarded operation reaches the collaborator stored under the
\* proxy's _key in the entry current for the caller at that moment; a write of
\* an underscore name and a read of a name found on the proxy reach the proxy.
C9_FreshResolution ==
  (last.op = "proxy" /\ last.err = "none") =>
    IF ActsOnProxy THEN last.target = OnProxy(last.role)
    ELSE /\ context[last.unit] # None
         /\ last.target = context[last.unit][proxyAttrs[last.role]["_key"]]

\* The same handle after an inner scope was left: the outer collaborator
\* again, and it is not the one the inner scope had.
C9_Witness ==
  /\ last.op = "proxy" /\ last.err = "none" /\ ~ActsOnProxy
  /\ context[last.unit] # None
  /\ last.target = context[last.unit][last.role]
  /\ \E t \in 1..Len(tokens) :
       /\ tokens[t].ctx = last.unit /\ tokens[t].used
       /\ tokens[t].old = context[last.unit]
       /\ last.target # <<last.role, 1>>

\* C4: on an eager monitor of capacity N every track call made while fewer
\* than N events are stored raises nothing and appends its own event after
\* the stored ones, so get_events returns the calls in call order; a track
\* call made once N events are stored changes nothing, and buffer_usage
\* is 1.0 from then on.
C4_EagerRecordsInOrder ==
  /\ (last.op = "track" /\ last.pre.event_count < MaxBufferSize) =>
       /\ last.err = "none"
       /\ Len(dm.events_metadata) = Len(last.pre.events_metadata) + 1
       /\ SubSeq(dm.events_metadata, 1, Len(last.pre.events_metadata))
            = last.pre.events_metadata
       /\ Top(dm.events_metadata).etype = last.event
       /\ Top(dm.events_metadata).metadata = last.metadata
       /\ dm.event_count = Len(dm.events_metadata)
  /\ (last.op = "track" /\ last.pre.event_count >= MaxBufferSize) =>
       last.err = "none" /\ dm = last.pre
  /\ last.op = "get_events" => last.err = "none" /\ last.ret = dm.events_metadata
  /\ (last.op = "get_summary" /\ Len(dm.events_metadata) = MaxBufferSize) =>
       /\ last.err = "none"
       /\ last.ret.buffer_usage.num = last.ret.buffer_usage.den

\* C10: below capacity stop_timer raises nothing, appends exactly one event
\* of type "<name>_completed" and returns the duration now - start.
C10_StopTimerRecords ==
  (last.op = "stop_timer" /\ last.pre.event_count < MaxBufferSize) =>
    /\ last.err = "none"
    /\ Len(dm.events_metadata) = Len(last.pre.events_metadata) + 1
    /\ Top(dm.events_metadata).etype = last.name \o "_completed"
    /\ last.ret = Some(last.at - last.start_time)

\* C5: on a deferred monitor get_events returns the parse of the byte stream
\* as it is at the call, after any sequence of track, get_events,
\* clear_buffer, flush_to_disk and load_from_disk: the memoized list is not
\* returned once the stream has changed.
C5_CacheFollowsBuffer ==
  (last.op = "get_events" /\ last.err = "none")
    => last.ret = ParseBuffer(om.events_buffer).events

\* C6: flush_to_disk of a freshly filled monitor holding k >= 1 events,
\* followed by load_from_disk of that file, raises nothing and leaves
\* event_count = k and the byte stream as it was before the flush.
C6_FlushLoadRoundTrip ==
  (/\ last.op = "load_from_disk" /\ last.afterFlush /\ last.err # "IOError"
   /\ last.flushed.event_count >= 1
   /\ Len(ParseBuffer(last.flushed.events_buffer).events) = last.flushed.event_count)
    => /\ last.err = "none"
       /\ om.event_count = last.flushed.event_count
       /\ om.events_buffer = last.flushed.events_buffer

\* C7: when the stream holds N encoded events followed by raw bytes that are
\* no encoded event, get_events parsing it raises nothing and returns
\* exactly the N events, in order.
C7_CorruptTailTolerated ==
  (last.op = "get_events" /\ last.parsed /\ shape = "garbage")
    => last.err = "none" /\ last.ret = expect
\* Sum of the per-type counts of a summary.
RECURSIVE SumCounts(_)
SumCounts(counts) ==
  IF counts = << >> THEN 0 ELSE Head(counts).n + SumCounts(Tail(counts))

\* C11: in every reachable state of the eager monitor, the empty one included,
\* get_summary returns without error; its total is the number of stored
\* events, its per-type counts sum to that total and its buffer_usage is
\* event_count / capacity.
C11_SummaryConsistent ==
  last.op = "get_summary" =>
    /\ last.err = "none"
    /\ last.ret.total_events = Len(dm.events_metadata)
    /\ SumCounts(last.ret.events_by_type) = last.ret.total_events
    /\ last.ret.buffer_usage = Ratio(dm.event_count, MaxBufferSize)
\* C12: a get_events call on a deferred buffer that directly follows a
\* get_events call which returned (nothing in between) returns an equal
\* result and does not run the parser over the byte stream again, whatever
\* the stream holds: nothing, events, or bytes no event can be decoded from.
C12_SecondCallCached ==
  (last.op = "get_events" /\ last.again) =>
    /\ last.err = "none"
    /\ last.ret = last.before
    /\ ~last.parsed
\* The collaborator a role should get: the argument, or the role's default.
Expected(arg, default) == IF arg # NoneArg THEN arg ELSE default

\* C13: inside a decorated call each role's active collaborator is the object
\* passed to sentinel for that role when it is not None and the role's
\* default object when it is None, for all eight combinations.
C13_RolesResolvedIndependently ==
  (last.op = "get_context" /\ last.err = "none" /\ calls[last.unit].pc = "body") =>
    /\ last.ret.session = Expected(wrapped.given.session, DefaultSession)
    /\ last.ret.monitor = Expected(wrapped.given.monitor, DefaultMonitor)
    /\ last.ret.report = Expected(wrapped.given.report, DefaultReport)

\* C17: every invocation of a decorated function writes a start line before
\* the body runs and exactly one more line after it, a completion line on
\* return or an error line when the body raises, the exception reaches the
\* caller, and the context current afterwards is the one current before.
C17_StartThenOneLine ==
  /\ last.op = "wrapper_begin" => (last.err = "none" /\ last.started)
  /\ last.op = "wrapper_end" =>
       /\ last.restored
       /\ last.how = "return" => (last.err = "none" /\ last.lines = <<"Starting", "Completed">>)
       /\ last.how # "return" => (last.err = Raised(last.how)
                                  /\ last.lines = <<"Starting", "Exception">>)
\* C14: a snapshot returned by get_metrics or inside get_summary shows, as
\* long as its holder has not written to it, exactly the items it showed when
\* returned, whatever increment_metric calls came later; and a write to a
\* snapshot leaves the monitor's table as it was.
C14_SnapshotIndependent ==
  /\ \A k \in 1..Len(snapshots) :
       ~snapshots[k].touched => Items(snapshots[k].o) = snapshots[k].taken
  /\ last.op = "snapshot_write" => dm.metrics = last.table

\* A snapshot taken and left alone while the table moved on, and another one
\* written to by its holder.
C14_Witness ==
  /\ Len(snapshots) = 2
  /\ ~snapshots[1].touched /\ snapshots[1].taken # dm.metrics
  /\ DOMAIN snapshots[1].taken # DOMAIN dm.metrics
  /\ snapshots[2].touched /\ snapshots[2].o.obj # dm.metrics
\* C15: one event encoded by _serialize_event and parsed back gives one record
\* whose 'event' is the tracked type, whose 'duration' is present and equal
\* exactly when a duration was given, and whose 'metadata' is present and
\* equal exactly when non-empty metadata was given.
C15_EventRoundTrip ==
  last.op = "round_trip" =>
    /\ last.err = "none"
    /\ Len(last.parsed) = 1
    /\ last.parsed[1].event = PyStr(last.event)
    /\ last.parsed[1].duration =
         (IF last.duration = NoDuration THEN << >> ELSE <<PyFloat(last.duration[1])>>)
    /\ Len(last.parsed[1].metadata) = (IF Len(last.metadata.v) > 0 THEN 1 ELSE 0)
    /\ Len(last.metadata.v) > 0 => last.parsed[1].metadata[1].v = last.metadata.v
C18_FlushClearsAndWrites ==
  (last.op = "flush_to_disk" /\ last.err = "none") =>
    LET h == Len(last.pre.buffer_header)
        s == Len(last.pre.events_buffer)
        record == Unpackb(SubSeq(disk, h + 1, Len(disk) - s))
    IN
    /\ om.event_count = 0
    /\ om.events_buffer = << >>
    /\ OptimizedGetEvents(om).err = "none"
    /\ OptimizedGetEvents(om).ret = << >>
    /\ OptimizedTrack(om, now, "a", NoDuration, NoMeta).event_count = 1
    /\ MaxBufferSize - om.event_count = MaxBufferSize
    /\ Len(disk) >= h + s
    /\ SubSeq(disk, 1, h) = last.pre.buffer_header
    /\ SubSeq(disk, Len(disk) - s + 1, Len(disk)) = last.pre.events_buffer
    /\ record.err = "none"
    /\ record.val.ty = "map"
    /\ DictGet(record.val.v, PyStr("event_count"), PyInt(0 - 1)) = PyInt(last.pre.event_count)

\* A flush of a monitor that held events and a parsed view of them.
C18_Witness ==
  /\ last.op = "flush_to_disk" /\ last.err = "none"
  /\ last.pre.event_count >= 1
  /\ last.pre.pending_events # << >>
  /\ om.pending_events = << >>
\* C19: flush_to_disk and load_from_disk end with an I/O error when the file
\* cannot be opened, and load_from_disk never rejects a file that holds a
\* valid header, a valid count record and a valid event stream.
C19_FailuresSurfaceValidFilesLoad ==
  /\ (last.op \in {"flush_to_disk", "load_from_disk"} /\ last.io = "open")
       => last.err = "IOError"
  /\ (last.op = "load_from_disk" /\ last.io = "ok" /\ disk # NoFile)
       => last.err = "none"
\* C20: in both buffer variants a track call made at event_count >= capacity,
\* directly or through start_timer or stop_timer, raises nothing and leaves
\* the whole monitor as it was: events or byte stream, event_count, the
\* cached parsed view and the metrics table.
C20_FullBufferDropsSilently ==
  (/\ last.op \in {"track", "start_timer", "stop_timer"}
   /\ last.pre.event_count >= MaxBufferSize)
    => /\ last.err = "none"
       /\ IF "pending_events" \in DOMAIN last.pre THEN om = last.pre ELSE dm = last.pre

\* stop_timer on a full eager monitor with a metric recorded, next to a full
\* deferred monitor that holds a parsed view.
C20_Witness ==
  /\ last.op = "stop_timer" /\ last.err = "none"
  /\ "events_metadata" \in DOMAIN last.pre
  /\ last.pre.event_count = MaxBufferSize /\ dm = last.pre
  /\ DOMAIN dm.metrics # {}
  /\ om.event_count = MaxBufferSize /\ om.pending_events # << >>
\* C21: two invocations of a decorated function that are inside the body at
\* the same time in different units track into the same monitor object only
\* when the caller passed that object to sentinel; event_count never exceeds
\* the capacity, and every track call that got past the capacity check and
\* returned has its event among the stored ones.
C21_OneMonitorPerCallChain ==
  /\ \A u, v \in Units :
       (/\ u # v /\ calls[u].pc = "body" /\ calls[v].pc = "body"
        /\ trk[u].into # 0 /\ trk[u].into = trk[v].into)
         => wrapped.given.monitor # NoneArg
  /\ dm.event_count <= MaxBufferSize
  /\ Len(dm.events_metadata) >= tracked.done
\* The number a float64 stands for, and the timestamps of a list of events.
FloatValue(x) == x.v[8]
EagerTimes(events) == [k \in 1..Len(events) |-> events[k].timestamp]
DeferredTimes(events) == [k \in 1..Len(events) |-> FloatValue(events[k].timestamp)]
ElapsedInOrder(ts, start) ==
  \A k \in 1..Len(ts) :
    /\ ts[k] >= 0
    /\ ts[k] <= now - start
    /\ k > 1 => ts[k - 1] <= ts[k]

RECURSIVE SumOfDeltas(_, _)
SumOfDeltas(log, name) ==
  IF log = << >> THEN 0
  ELSE SumOfDeltas(SubSeq(log, 1, Len(log) - 1), name)
         + (IF log[Len(log)].name # name THEN 0
            ELSE IF log[Len(log)].arg = NoValue THEN 1 ELSE log[Len(log)].arg[1])

\* C23: the table holds exactly the names increment_metric was called with,
\* each with the sum of the deltas passed for it (1 where none was given,
\* negative ones included), and a call leaves the stored events and
\* event_count as they were.
C23_TotalsAreSums ==
  /\ DOMAIN dm.metrics = {deltas[k].name : k \in 1..Len(deltas)}
  /\ \A n \in DOMAIN dm.metrics : dm.metrics[n] = SumOfDeltas(deltas, n)
  /\ last.op = "increment_metric" =>
       /\ last.err = "none"
       /\ dm.events_metadata = Top(deltas).pre.events_metadata
       /\ dm.event_count = Top(deltas).pre.event_count
       /\ dm.events_buffer = Top(deltas).pre.events_buffer

\* A name incremented by default, then decremented below zero, while the
\* other name was never touched and an event is stored.
C23_Witness ==
  /\ last.op = "increment_metric"
  /\ Len(deltas) = 3
  /\ deltas[1].arg = NoValue
  /\ \A k \in 1..3 : deltas[k].name = "hits"
  /\ dm.metrics["hits"] = 0 - 1
  /\ "cost" \notin DOMAIN dm.metrics
  /\ dm.event_count = 1
\* C24: after a load_from_disk that succeeded on a monitor holding a cached
\* parsed view, the next get_events runs the parser and returns the parse of
\* the byte stream the load left in memory, with no record of the view that
\* was cached before.
C24_LoadDropsCachedView ==
  (last.op = "load_from_disk" /\ last.err = "none" /\ last.pre.pending_events # << >>) =>
    \E g \in {OptimizedGetEvents(om)} :
      /\ om.pending_events = << >>
      /\ g.err = "none" /\ g.parsed
      /\ g.ret = ParseBuffer(om.events_buffer).events
      /\ \A k \in 1..Len(last.pre.pending_events), j \in 1..Len(g.ret) :
           g.ret[j] # last.pre.pending_events[k]

\* A monitor that held events and a parsed view of them has loaded a file.
C24_Witness ==
  /\ last.op = "load_from_disk" /\ last.err = "none"
  /\ last.pre.pending_events # << >>
  /\ last.pre.event_count >= 1
  /\ om.pending_events = << >>
\* The rank of a level name: the five names in order, any other name as INFO.
RankOf(l) ==
  CASE l = "DEBUG" -> 1 [] l = "INFO" -> 2 [] l = "WARNING" -> 3
    [] l = "ERROR" -> 4 [] l = "CRITICAL" -> 5 [] OTHER -> 2
\* The lines a piece of text ends: its line breaks.
LinesIn(text) == Cardinality({k \in 1..Len(text) : text[k] = LineBreak})

C26_CountMatchesStore ==
  /\ 0 <= dm.event_count /\ dm.event_count <= MaxBufferSize
  /\ Len(dm.events_metadata) = dm.event_count
  /\ 0 <= om.event_count /\ om.event_count <= MaxBufferSize
  /\ \E p \in {ParseBuffer(om.events_buffer)} :
       p.err = "none" /\ Len(p.events) = om.event_count

\* A deferred monitor filled to capacity by stop_timer, with a metric and a
\* parsed view that is one event behind.
C26_Witness ==
  /\ last.op = "stop_timer" /\ "pending_events" \in DOMAIN last.pre
  /\ last.pre.event_count = MaxBufferSize - 1
  /\ om.event_count = MaxBufferSize
  /\ Len(om.pending_events) = MaxBufferSize - 1 /\ om.pending_events # << >>
  /\ DOMAIN om.metrics # {}
\* C27: a flush_to_disk or load_from_disk call that ends with an error leaves
\* the byte stream, event_count and the cached parsed view as they were
\* before the call, whichever step failed.
C27_FailedIoLeavesMemory ==
  (last.op \in {"flush_to_disk", "load_from_disk"} /\ last.err # "none") =>
    /\ om.events_buffer = last.pre.events_buffer
    /\ om.event_count = last.pre.event_count
    /\ om.pending_events = last.pre.pending_events
====
